---- MODULE Spec2Model ----
(***************************************************************************)
(* A model of the persistent AVL tree of tree.h (Tree<T>) and of the       *)
(* Option<T> container of option.h.  A Tree is a record of its five        *)
(* members; an Option is a record of its two members, the shared pointer   *)
(* m_value being <<>> (NULL) or <<pointee>>.  The member functions are     *)
(* recursive operators, translated statement by statement; the state       *)
(* machine is a caller that holds one tree and applies insert and remove   *)
(* to it the way test_main.cpp and tree_main.cpp do.                       *)
(***************************************************************************)
EXTENDS Integers, Sequences, FiniteSets, TLC

\* ---- bounds -------------------------------------------------------------
\* element values are 0..MaxVal
MaxVal == 2
\* insert is not called on a tree that already holds MaxSize values
MaxSize == 5

\* an iterator is not incremented more than MaxPast times past end()
MaxPast == 2

Values == 0..MaxVal

VARIABLES
    tree,       \* the Tree object the caller holds (the receiver of calls)
    ret,        \* what the pending call returned: a Tree (insert), an Option (remove)
    pc,         \* "idle", or the call whose result is in ret: "insert", "remove"
    arg,        \* the argument of the pending or last call
    orig,       \* the receiver of the call before this one (the caller still holds it)
    prevcall,   \* that call: [op, arg]
    elide,      \* whether this build elides the copy of a returned local / temporary
    others,     \* the other Tree objects the caller holds (tree2 of test_tree_equality)
    it,         \* the TreeIter of the running loop over tree, <<>> when there is none
    out,        \* the values the running loop has read (out_list of test_tree_iterators)
    script,     \* the calls a scripted caller still has to make (test_rebalance)
    opt,        \* an Option<int> the caller holds (i of test_option_*)
    opt2,       \* the copy of it the caller holds (i2 of test_option_some)
    optret      \* the outcome of the last read of opt

\* the state that the calls on tree leave alone
aux == <<others, it, out, script, opt, opt2, optret>>

vars == <<tree, ret, pc, arg, orig, prevcall, elide, aux>>

Max(a, b) == IF a > b THEN a ELSE b

\* ---- option.h -----------------------------------------------------------

\* std::logic_error("dereference of NoneType"), as the value of a call that threw
Exception == [what |-> "dereference of NoneType"]
IsExc(x) == x = Exception

\* Option(): None
None == [m_value |-> <<>>, m_is_some |-> FALSE]

is_some(o) == o.m_is_some
is_none(o) == ~o.m_is_some

\* get_ref(): the shared handle (null or not), or the exception
get_ref(o) == IF is_some(o) THEN [handle |-> o.m_value] ELSE Exception

\* *h of a handle that get_ref() returned
Pointee(r) == IF IsExc(r) THEN Exception ELSE r.handle[1]

\* get_bare(): the outcomes of return *m_value.  With m_is_some true and a
\* null m_value the dereference is undefined: the call crashes or returns
\* any value
get_bare(o) ==
    IF is_some(o)
    THEN IF o.m_value # <<>>
         THEN {[value |-> o.m_value[1]]}
         ELSE {[crash |-> TRUE]} \cup {[value |-> v] : v \in Values}
    ELSE {Exception}

\* operator->(): the bare pointer m_value.get() (null or not), or the exception
operator_arrow(o) == IF is_some(o) THEN [pointer |-> o.m_value] ELSE Exception

\* o->member of the tree code: the pointee that operator-> points to
Arrow(o) == IF is_some(o) THEN o.m_value[1] ELSE Exception

\* Option(std::shared_ptr<T> value)
OptionHandle(value) == [m_value |-> value, m_is_some |-> value # <<>>]

\* Option(T *value, bool assume_ownership = true)
OptionBare(value) == [m_value |-> value, m_is_some |-> TRUE]

\* Option(T value) of an Option<int>
OptionValue(value) == [m_value |-> <<value>>, m_is_some |-> TRUE]

\* operator=(Option<T> newval)
AssignOption(o, newval) ==
    [o EXCEPT !.m_value = newval.m_value, !.m_is_some = newval.m_is_some]

\* operator=(std::shared_ptr<T> newval)
AssignHandle(o, newval) == [o EXCEPT !.m_value = newval, !.m_is_some = TRUE]

\* operator=(T newval)
AssignValue(o, newval) == AssignOption(o, OptionValue(newval))

\* ---- tree.h: sizes, heights, constructors -------------------------------

RECURSIVE tree_size(_)
tree_size(o) ==
    IF is_none(o) THEN 0
    ELSE tree_size(Arrow(o).m_child_left) + 1 + tree_size(Arrow(o).m_child_right)

RECURSIVE tree_height(_)
tree_height(o) ==
    IF is_none(o) THEN 0
    ELSE Max(tree_height(Arrow(o).m_child_left),
             tree_height(Arrow(o).m_child_right)) + 1

\* Tree(const T node)
TreeOf(node) ==
    [m_node |-> node, m_child_left |-> None, m_child_right |-> None,
     m_size |-> 1, m_height |-> 1]

\* Tree(const Tree<T>& head), the copy constructor
TreeCopy(head) ==
    IF IsExc(head) THEN Exception
    ELSE [m_node |-> head.m_node,
          m_child_left |-> head.m_child_left,
          m_child_right |-> head.m_child_right,
          m_size |-> tree_size(head.m_child_left) + 1 + tree_size(head.m_child_right),
          m_height |-> Max(tree_height(head.m_child_left),
                           tree_height(head.m_child_right)) + 1]

\* the private constructor with a cached height that leaves the node out
TreeWith_FlatHeight(node, left, right) ==
    IF IsExc(left) \/ IsExc(right) THEN Exception
    ELSE [m_node |-> node, m_child_left |-> left, m_child_right |-> right,
          m_size |-> tree_size(left) + tree_size(right),
          m_height |-> Max(tree_height(left), tree_height(right))]

\* Tree(const T node, const Option left, const Option right), the private constructor
TreeWith(node, left, right) ==
    IF IsExc(left) \/ IsExc(right) THEN Exception
    ELSE [m_node |-> node, m_child_left |-> left, m_child_right |-> right,
          m_size |-> tree_size(left) + tree_size(right),
          m_height |-> Max(tree_height(left), tree_height(right)) + 1]

\* Option(T value): m_value(new T(value)), which copy-constructs the Tree
Some(value) ==
    IF IsExc(value) THEN Exception
    ELSE [m_value |-> <<TreeCopy(value)>>, m_is_some |-> TRUE]

\* "return local;" or "return f();" of a Tree by value: the copy may be elided
Return(t, el) == IF el THEN t ELSE TreeCopy(t)

\* ---- tree.h: queries ----------------------------------------------------

is_leaf(t) == is_none(t.m_child_left) /\ is_none(t.m_child_right)

size(t) == t.m_size
height(t) == t.m_height

RECURSIVE toList(_)
toList(t) ==
    (IF is_some(t.m_child_left) THEN toList(Arrow(t.m_child_left)) ELSE <<>>)
    \o <<t.m_node>> \o
    (IF is_some(t.m_child_right) THEN toList(Arrow(t.m_child_right)) ELSE <<>>)

\* contains that looks for a smaller value on the right and a greater on the left
RECURSIVE contains_WrongSide(_, _)
contains_WrongSide(t, val) ==
    IF t.m_node = val THEN TRUE
    ELSE IF t.m_node < val
         THEN IF is_some(t.m_child_left)
              THEN contains_WrongSide(Arrow(t.m_child_left), val) ELSE FALSE
         ELSE IF is_some(t.m_child_right)
              THEN contains_WrongSide(Arrow(t.m_child_right), val) ELSE FALSE

RECURSIVE contains(_, _)
contains(t, val) ==
    IF t.m_node = val THEN TRUE
    ELSE IF t.m_node > val
         THEN IF is_some(t.m_child_left)
              THEN contains(Arrow(t.m_child_left), val) ELSE FALSE
         ELSE IF is_some(t.m_child_right)
              THEN contains(Arrow(t.m_child_right), val) ELSE FALSE

\* min that looks one level down only
min_OneLevel(t) ==
    IF is_some(t.m_child_left) THEN Arrow(t.m_child_left).m_node ELSE t.m_node

RECURSIVE min(_)
min(t) ==
    IF is_some(t.m_child_left) THEN min(Arrow(t.m_child_left)) ELSE t.m_node

RECURSIVE max(_)
max(t) ==
    IF is_some(t.m_child_right) THEN max(Arrow(t.m_child_right)) ELSE t.m_node

\* is_balanced that also looks at the nodes below the root
RECURSIVE is_balanced_Deep(_)
is_balanced_Deep(t) ==
    LET left_height == tree_height(t.m_child_left)
        right_height == tree_height(t.m_child_right)
    IN  IF left_height > right_height + 1 \/ right_height > left_height + 1
        THEN FALSE
        ELSE /\ is_some(t.m_child_left) => is_balanced_Deep(Arrow(t.m_child_left))
             /\ is_some(t.m_child_right) => is_balanced_Deep(Arrow(t.m_child_right))

is_balanced(t) ==
    LET left_height == tree_height(t.m_child_left)
        right_height == tree_height(t.m_child_right)
    IN  IF left_height > right_height + 1 \/ right_height > left_height + 1
        THEN FALSE ELSE TRUE

\* the loop of operator==: the position at which it stops, walking both
\* lists from position i, and whether it stopped on a difference
RECURSIVE EqLoop(_, _, _)
EqLoop(us, them, i) ==
    IF i <= Len(us) /\ i <= Len(them)
    THEN IF us[i] # them[i] THEN [differ |-> TRUE, at |-> i]
         ELSE EqLoop(us, them, i + 1)
    ELSE [differ |-> FALSE, at |-> i]

\* Tree<T>::operator==
Equal(t, rhs) ==
    IF size(rhs) # size(t) THEN FALSE
    ELSE LET us == toList(t)
             them == toList(rhs)
             r == EqLoop(us, them, 1)
         IN  IF r.differ THEN FALSE
             ELSE IF r.at <= Len(us) \/ r.at <= Len(them) THEN FALSE
             ELSE TRUE

\* Tree<T>::operator!=
NotEqual(t, rhs) == ~Equal(t, rhs)

\* ---- tree.h: rotations and balance --------------------------------------

\* rotLeft with the right child's left subtree dropped from the new head
rotLeft_DropsInner(t, el) ==
    LET rchld == t.m_child_right IN
    IF is_none(rchld) THEN TreeCopy(t)
    ELSE LET new_head == TreeWith(t.m_node, t.m_child_left, None)
             new_right == TreeWith(Arrow(rchld).m_node, Some(new_head),
                                   Arrow(rchld).m_child_right)
         IN  Return(new_right, el)

rotLeft(t, el) ==
    LET rchld == t.m_child_right IN
    IF is_none(rchld) THEN TreeCopy(t)
    ELSE LET rleft == Arrow(rchld).m_child_left
             new_head == TreeWith(t.m_node, t.m_child_left, rleft)
             new_right == TreeWith(Arrow(rchld).m_node, Some(new_head),
                                   Arrow(rchld).m_child_right)
         IN  Return(new_right, el)

\* rotRight with the two children of the new root on the wrong sides
rotRight_SwappedSides(t, el) ==
    LET lchld == t.m_child_left IN
    IF is_none(lchld) THEN TreeCopy(t)
    ELSE LET lright == Arrow(lchld).m_child_right
             new_head == TreeWith(t.m_node, lright, t.m_child_right)
             new_left == TreeWith(Arrow(lchld).m_node, Some(new_head),
                                  Arrow(lchld).m_child_left)
         IN  Return(new_left, el)

\* rotRight that handles every node gracefully: no rotation
rotRight_Stays(t, el) == TreeCopy(t)

rotRight(t, el) ==
    LET lchld == t.m_child_left IN
    IF is_none(lchld) THEN TreeCopy(t)
    ELSE LET lright == Arrow(lchld).m_child_right
             new_head == TreeWith(t.m_node, lright, t.m_child_right)
             new_left == TreeWith(Arrow(lchld).m_node, Arrow(lchld).m_child_left,
                                  Some(new_head))
         IN  Return(new_left, el)

\* balance that lets the heights of the children differ by two
balance_Slack(t, el) ==
    IF IsExc(t) THEN Exception
    ELSE IF tree_height(t.m_child_left) > tree_height(t.m_child_right) + 2
         THEN Return(rotRight(t, el), el)
    ELSE IF tree_height(t.m_child_right) > tree_height(t.m_child_left) + 2
         THEN Return(rotLeft(t, el), el)
    ELSE TreeCopy(t)

\* balance that never rotates to the left
balance_RightOnly(t, el) ==
    IF IsExc(t) THEN Exception
    ELSE IF tree_height(t.m_child_left) > tree_height(t.m_child_right) + 1
         THEN Return(rotRight(t, el), el)
    ELSE TreeCopy(t)

balance(t, el) ==
    IF IsExc(t) THEN Exception
    ELSE IF tree_height(t.m_child_left) > tree_height(t.m_child_right) + 1
         THEN Return(rotRight(t, el), el)
    ELSE IF tree_height(t.m_child_right) > tree_height(t.m_child_left) + 1
         THEN Return(rotLeft(t, el), el)
    ELSE TreeCopy(t)

\* ---- tree.h: insert -----------------------------------------------------

\* insert that sends a value equal to the node's to the left
RECURSIVE insert_EqualLeft(_, _, _)
insert_EqualLeft(t, node, el) ==
    IF IsExc(t) THEN Exception
    ELSE IF t.m_node >= node
    THEN IF is_none(t.m_child_left)
         THEN Return(balance(TreeWith(t.m_node, Some(TreeOf(node)),
                                      t.m_child_right), el), el)
         ELSE LET lchld == Pointee(get_ref(t.m_child_left)) IN
              Return(balance(TreeWith(t.m_node, Some(insert_EqualLeft(lchld, node, el)),
                                      t.m_child_right), el), el)
    ELSE IF is_none(t.m_child_right)
         THEN Return(balance(TreeWith(t.m_node, t.m_child_left,
                                      Some(TreeOf(node))), el), el)
         ELSE LET rchld == Pointee(get_ref(t.m_child_right)) IN
              Return(balance(TreeWith(t.m_node, t.m_child_left,
                                      Some(insert_EqualLeft(rchld, node, el))), el), el)

RECURSIVE insert(_, _, _)
insert(t, node, el) ==
    IF IsExc(t) THEN Exception
    ELSE IF t.m_node > node
    THEN IF is_none(t.m_child_left)
         THEN Return(balance(TreeWith(t.m_node, Some(TreeOf(node)),
                                      t.m_child_right), el), el)
         ELSE LET lchld == Pointee(get_ref(t.m_child_left)) IN
              Return(balance(TreeWith(t.m_node, Some(insert(lchld, node, el)),
                                      t.m_child_right), el), el)
    ELSE IF is_none(t.m_child_right)
         THEN Return(balance(TreeWith(t.m_node, t.m_child_left,
                                      Some(TreeOf(node))), el), el)
         ELSE LET rchld == Pointee(get_ref(t.m_child_right)) IN
              Return(balance(TreeWith(t.m_node, t.m_child_left,
                                      Some(insert(rchld, node, el))), el), el)

\* insert(const Tree<T> node): return insert(node.deref())
insertTree(t, node, el) == Return(insert(t, node.m_node, el), el)

\* insert(const Option<Tree<T>> node): insert(node->deref()), or a copy of
\* the receiver for an empty node
insertOption(t, node, el) ==
    IF is_some(node)
    THEN Return(insert(t, Arrow(node).m_node, el), el)
    ELSE Return(TreeCopy(t), el)

\* ---- tree.h: remove -----------------------------------------------------

\* popMin and popMax return a record: ret is the returned Option, and
\* min_node / max_node is the value left in the reference parameter
RECURSIVE popMin(_, _)
popMin(t, min_node) ==
    IF IsExc(t) THEN [ret |-> Exception, min_node |-> min_node]
    ELSE IF is_some(t.m_child_left)
    THEN LET r == popMin(Arrow(t.m_child_left), min_node) IN
         [ret |-> Some(TreeWith(t.m_node, r.ret, t.m_child_right)),
          min_node |-> r.min_node]
    ELSE [ret |-> t.m_child_right, min_node |-> Some(t)]

\* popMax that does not hand the maximum back through max_node
RECURSIVE popMax_KeepsOut(_, _)
popMax_KeepsOut(t, max_node) ==
    IF IsExc(t) THEN [ret |-> Exception, max_node |-> max_node]
    ELSE IF is_some(t.m_child_right)
    THEN LET r == popMax_KeepsOut(Arrow(t.m_child_right), max_node) IN
         [ret |-> Some(TreeWith(t.m_node, t.m_child_left, r.ret)),
          max_node |-> r.max_node]
    ELSE [ret |-> t.m_child_left, max_node |-> max_node]

RECURSIVE popMax(_, _)
popMax(t, max_node) ==
    IF IsExc(t) THEN [ret |-> Exception, max_node |-> max_node]
    ELSE IF is_some(t.m_child_right)
    THEN LET r == popMax(Arrow(t.m_child_right), max_node) IN
         [ret |-> Some(TreeWith(t.m_node, t.m_child_left, r.ret)),
          max_node |-> r.max_node]
    ELSE [ret |-> t.m_child_left, max_node |-> Some(t)]

\* removeThisNode that keeps the whole left subtree under the promoted maximum
removeThisNode_KeepsMax(t) ==
    IF is_leaf(t) THEN None
    ELSE IF is_some(t.m_child_left)
    THEN LET r == popMax(Arrow(t.m_child_left), None)
             max_node == r.max_node
         IN  IF is_none(max_node) THEN Exception
             ELSE Some(TreeWith(Arrow(max_node).m_node, t.m_child_left,
                                t.m_child_right))
    ELSE LET r == popMin(Arrow(t.m_child_right), None)
             min_node == r.min_node
             rchld == r.ret
         IN  IF is_none(min_node) THEN Exception
             ELSE Some(TreeWith(Arrow(min_node).m_node, t.m_child_left, rchld))

\* removeThisNode that takes the minimum of the right side whenever there
\* is a right side
removeThisNode_RightFirst(t) ==
    IF is_leaf(t) THEN None
    ELSE IF is_none(t.m_child_right)
    THEN LET r == popMax(Arrow(t.m_child_left), None)
             max_node == r.max_node
             lchld == r.ret
         IN  IF is_none(max_node) THEN Exception
             ELSE Some(TreeWith(Arrow(max_node).m_node, lchld, t.m_child_right))
    ELSE LET r == popMin(Arrow(t.m_child_right), None)
             min_node == r.min_node
             rchld == r.ret
         IN  IF is_none(min_node) THEN Exception
             ELSE Some(TreeWith(Arrow(min_node).m_node, t.m_child_left, rchld))

removeThisNode(t) ==
    IF is_leaf(t) THEN None
    ELSE IF is_some(t.m_child_left)
    THEN LET r == popMax(Arrow(t.m_child_left), None)
             max_node == r.max_node
             lchld == r.ret
         IN  IF is_none(max_node) THEN Exception
             ELSE Some(TreeWith(Arrow(max_node).m_node, lchld, t.m_child_right))
    ELSE LET r == popMin(Arrow(t.m_child_right), None)
             min_node == r.min_node
             rchld == r.ret
         IN  IF is_none(min_node) THEN Exception
             ELSE Some(TreeWith(Arrow(min_node).m_node, t.m_child_left, rchld))

\* remove that looks for a smaller value in the right subtree and for a
\* greater one in the left
RECURSIVE remove_WrongSide(_, _, _)
remove_WrongSide(t, node, el) ==
    IF IsExc(t) THEN Exception
    ELSE IF t.m_node = node THEN removeThisNode(t)
    ELSE IF t.m_node < node
    THEN IF is_none(t.m_child_left) THEN Some(t)
         ELSE LET head == TreeWith(t.m_node,
                                   remove_WrongSide(Arrow(t.m_child_left), node, el),
                                   t.m_child_right)
              IN  Some(balance(head, el))
    ELSE IF is_none(t.m_child_right) THEN Some(t)
         ELSE LET head == TreeWith(t.m_node, t.m_child_left,
                                   remove_WrongSide(Arrow(t.m_child_right), node, el))
              IN  Some(balance(head, el))

RECURSIVE remove(_, _, _)
remove(t, node, el) ==
    IF IsExc(t) THEN Exception
    ELSE IF t.m_node = node THEN removeThisNode(t)
    ELSE IF t.m_node > node
    THEN IF is_none(t.m_child_left) THEN Some(t)
         ELSE LET head == TreeWith(t.m_node,
                                   remove(Arrow(t.m_child_left), node, el),
                                   t.m_child_right)
              IN  Some(balance(head, el))
    ELSE IF is_none(t.m_child_right) THEN Some(t)
         ELSE LET head == TreeWith(t.m_node, t.m_child_left,
                                   remove(Arrow(t.m_child_right), node, el))
              IN  Some(balance(head, el))

\* ---- the caller ---------------------------------------------------------

\* no loop is running
NoIter == <<>>

\* opt has not been read
NotRead == [op |-> "none", on |-> None, res |-> [none |-> TRUE]]

\* the caller's state apart from the trees it holds: a call is not pending,
\* no loop is running, opt is Option<int>() and has not been read
InitCaller ==
    /\ ret = None
    /\ pc = "idle"
    /\ arg = 0
    /\ orig = None
    /\ prevcall = [op |-> "new", arg |-> 0]
    /\ elide \in BOOLEAN
    /\ it = NoIter
    /\ out = <<>>
    /\ opt = None
    /\ opt2 = None
    /\ optret = NotRead

Init ==
    /\ \E v \in Values : tree = TreeOf(v)
    /\ others = <<>>
    /\ script = <<>>
    /\ InitCaller

\* an insert that works in place: the receiver becomes the result
CallInsert_InPlace(v) ==
    /\ pc = "idle"
    /\ tree_size(Some(tree)) < MaxSize
    /\ ret' = insert(tree, v, elide)
    /\ tree' = ret'
    /\ pc' = "insert"
    /\ arg' = v
    /\ UNCHANGED <<orig, prevcall, elide>>
    /\ UNCHANGED aux

\* T.insert(v): a const member function, the receiver is not assigned
CallInsert(v) ==
    /\ pc = "idle"
    /\ tree_size(Some(tree)) < MaxSize
    /\ ret' = insert(tree, v, elide)
    /\ pc' = "insert"
    /\ arg' = v
    /\ UNCHANGED <<tree, orig, prevcall, elide>>
    /\ UNCHANGED aux

\* T.remove(v): a const member function, the receiver is not assigned
CallRemove(v) ==
    /\ pc = "idle"
    /\ ret' = remove(tree, v, elide)
    /\ pc' = "remove"
    /\ arg' = v
    /\ UNCHANGED <<tree, orig, prevcall, elide>>
    /\ UNCHANGED aux

\* const Tree<int> tree2(tree1.insert(6)): the caller goes on with the
\* returned Tree object itself
TakeValue ==
    /\ pc = "insert"
    /\ ~IsExc(ret)
    /\ tree' = Return(ret, elide)
    /\ orig' = Some(tree)
    /\ prevcall' = [op |-> pc, arg |-> arg]
    /\ pc' = "idle"
    /\ UNCHANGED <<ret, arg, elide>>
    /\ UNCHANGED aux

\* opt_tree = opt_tree->insert(x): Option::operator=(T newval) stores a copy
TakeOption ==
    /\ pc = "insert"
    /\ ~IsExc(ret)
    /\ tree' = Arrow(Some(ret))
    /\ orig' = Some(tree)
    /\ prevcall' = [op |-> pc, arg |-> arg]
    /\ pc' = "idle"
    /\ UNCHANGED <<ret, arg, elide>>
    /\ UNCHANGED aux

\* tree = tree->remove(x), and the caller goes on with *tree
TakeRemoved ==
    /\ pc = "remove"
    /\ ~IsExc(ret)
    /\ is_some(ret)
    /\ tree' = Arrow(ret)
    /\ orig' = Some(tree)
    /\ prevcall' = [op |-> pc, arg |-> arg]
    /\ pc' = "idle"
    /\ UNCHANGED <<ret, arg, elide>>
    /\ UNCHANGED aux

\* the last value was removed (None came back): the caller starts over
\* with Tree<int> tree(v)
NewTree(v) ==
    /\ pc = "remove"
    /\ ~IsExc(ret)
    /\ is_none(ret)
    /\ tree' = TreeOf(v)
    /\ orig' = None
    /\ prevcall' = [op |-> "new", arg |-> v]
    /\ pc' = "idle"
    /\ UNCHANGED <<ret, arg, elide>>
    /\ UNCHANGED aux

Next ==
    \/ \E v \in Values : CallInsert(v)
    \/ \E v \in Values : CallRemove(v)
    \/ TakeValue
    \/ TakeOption
    \/ TakeRemoved
    \/ \E v \in Values : NewTree(v)

Spec == Init /\ [][Next]_vars

\* insert calls only
NextInsert ==
    \/ \E v \in Values : CallInsert(v)
    \/ TakeValue
    \/ TakeOption

SpecInsert == Init /\ [][NextInsert]_vars

\* ---- a caller that holds two trees (test_tree_equality) ------------------

\* tree1 and tree2 are both built from Tree<int>(v)
InitEq ==
    /\ \E v \in Values : tree = TreeOf(v) /\ others = <<TreeOf(v)>>
    /\ script = <<>>
    /\ InitCaller

\* the caller turns to its other tree: the next calls are made on it
Swap ==
    /\ pc = "idle"
    /\ others # <<>>
    /\ tree' = others[1]
    /\ others' = <<tree>>
    /\ orig' = None
    /\ prevcall' = [op |-> "swap", arg |-> 0]
    /\ UNCHANGED <<ret, pc, arg, elide, it, out, script, opt, opt2, optret>>

NextEq ==
    \/ \E v \in Values : CallInsert(v)
    \/ TakeValue
    \/ TakeOption
    \/ Swap

SpecEq == InitEq /\ [][NextEq]_vars

\* ---- tree.h: TreeIter ---------------------------------------------------

\* the Tree object a reference names: the held tree or the other one
TreeAt(ref) == IF ref = "tree" THEN tree ELSE others[1]

\* TreeIter(tree, START) and TreeIter(tree, END); m_tree is a reference
begin(ref) ==
    [m_tree |-> ref, m_index |-> 0, m_size |-> size(TreeAt(ref))]
end(ref) ==
    [m_tree |-> ref, m_index |-> size(TreeAt(ref)), m_size |-> size(TreeAt(ref))]

\* operator++
Incr(i) == [i EXCEPT !.m_index = @ + 1]

\* TreeIter::operator== and operator!=
IterEqual(a, b) ==
    Equal(TreeAt(a.m_tree), TreeAt(b.m_tree)) /\ a.m_index = b.m_index
IterNotEqual(a, b) == ~IterEqual(a, b)

\* deref that does not count the node itself when it goes right
RECURSIVE deref_NoRebase(_, _, _)
deref_NoRebase(i, t, place) ==
    IF IsExc(Arrow(t)) THEN Exception
    ELSE IF i.m_index >= place + size(Arrow(t)) THEN [value |-> 0]
    ELSE LET left_size == tree_size(Arrow(t).m_child_left) IN
         IF i.m_index = place + left_size THEN [value |-> Arrow(t).m_node]
         ELSE IF i.m_index < place + left_size
              THEN deref_NoRebase(i, Arrow(t).m_child_left, place)
              ELSE deref_NoRebase(i, Arrow(t).m_child_right, place + left_size)

\* TreeIter::deref(tree, place): [value |-> v], or the exception of tree->
RECURSIVE deref(_, _, _)
deref(i, t, place) ==
    IF IsExc(Arrow(t)) THEN Exception
    ELSE IF i.m_index >= place + size(Arrow(t)) THEN [value |-> 0]
    ELSE LET left_size == tree_size(Arrow(t).m_child_left) IN
         IF i.m_index = place + left_size THEN [value |-> Arrow(t).m_node]
         ELSE IF i.m_index < place + left_size
              THEN deref(i, Arrow(t).m_child_left, place)
              ELSE deref(i, Arrow(t).m_child_right, place + left_size + 1)

\* TreeIter::operator*: deref(m_tree, 0), m_tree converted to an Option
Star(i) == deref(i, Some(TreeAt(i.m_tree)), 0)

\* ---- a caller that iterates (test_tree_iterators) -------------------------

\* for (Tree<int>::iterator it = tree->begin(); ...
IterBegin ==
    /\ pc = "idle"
    /\ it' = begin("tree")
    /\ out' = <<>>
    /\ pc' = "loop"
    /\ UNCHANGED <<tree, ret, arg, orig, prevcall, elide, others, script, opt, opt2, optret>>

\* ... it != tree->end(); ++it) out_list.push_back(*it);
\* an exception of *it ends the caller
IterNext ==
    /\ pc = "loop"
    /\ IterNotEqual(it, end("tree"))
    /\ LET r == Star(it) IN
       IF IsExc(r)
       THEN /\ ret' = Exception
            /\ pc' = "threw"
            /\ UNCHANGED <<it, out>>
       ELSE /\ out' = Append(out, r.value)
            /\ it' = Incr(it)
            /\ UNCHANGED <<ret, pc>>
    /\ UNCHANGED <<tree, arg, orig, prevcall, elide, others, script, opt, opt2, optret>>

\* it != tree->end() is false: the loop is left
IterDone ==
    /\ pc = "loop"
    /\ ~IterNotEqual(it, end("tree"))
    /\ it' = NoIter
    /\ out' = <<>>
    /\ pc' = "idle"
    /\ UNCHANGED <<tree, ret, arg, orig, prevcall, elide, others, script, opt, opt2, optret>>

NextIter ==
    \/ Next
    \/ IterBegin
    \/ IterNext
    \/ IterDone

SpecIter == Init /\ [][NextIter]_vars

\* ---- a caller that iterates without testing against end() ---------------

\* out_list.push_back(*it); ++it; with no test of it != tree->end()
IterStep ==
    /\ pc = "loop"
    /\ it.m_index < size(tree) + MaxPast
    /\ LET r == Star(it) IN
       IF IsExc(r)
       THEN /\ ret' = Exception
            /\ pc' = "threw"
            /\ UNCHANGED <<it, out>>
       ELSE /\ out' = Append(out, r.value)
            /\ it' = Incr(it)
            /\ UNCHANGED <<ret, pc>>
    /\ UNCHANGED <<tree, arg, orig, prevcall, elide, others, script, opt, opt2, optret>>

NextIterPast ==
    \/ Next
    \/ IterBegin
    \/ IterStep
    \/ IterDone

SpecIterPast == Init /\ [][NextIterPast]_vars

\* ---- the caller of test_rebalance and of the end of main ----------------

\* for (i = from; i < to; i++) tree = tree->op(i): the calls still to make
RECURSIVE Calls(_, _, _)
Calls(op, from, to) ==
    IF from >= to THEN <<>>
    ELSE <<[op |-> op, arg |-> from]>> \o Calls(op, from + 1, to)

\* Option<Tree<int>> tree(Some(Tree<int>(0))), the two loops ahead
InitRebalance ==
    /\ tree = Arrow(Some(TreeOf(0)))
    /\ others = <<>>
    /\ script = Calls("insert", 1, 10) \o Calls("remove", 0, 4)
    /\ InitCaller

\* tree->insert(i) or tree->remove(i) of the next round of the loop
ScriptCall ==
    /\ pc = "idle"
    /\ script # <<>>
    /\ LET c == Head(script) IN
       /\ ret' = IF c.op = "insert" THEN insert(tree, c.arg, elide)
                                    ELSE remove(tree, c.arg, elide)
       /\ pc' = c.op
       /\ arg' = c.arg
    /\ script' = Tail(script)
    /\ UNCHANGED <<tree, orig, prevcall, elide, others, it, out, opt, opt2, optret>>

\* unbal = unbal->balance() of main, between the two loops
ScriptBalance ==
    /\ pc = "idle"
    /\ Len(script) = 4
    /\ prevcall.op = "insert"
    /\ ~IsExc(balance(tree, elide))
    /\ tree' = Arrow(Some(balance(tree, elide)))
    /\ orig' = Some(tree)
    /\ prevcall' = [op |-> "balance", arg |-> 0]
    /\ UNCHANGED <<ret, pc, arg, elide>>
    /\ UNCHANGED aux

NextRebalance ==
    \/ ScriptCall
    \/ TakeOption
    \/ TakeRemoved
    \/ ScriptBalance
    \/ IterBegin
    \/ IterNext
    \/ IterDone

SpecRebalance == InitRebalance /\ [][NextRebalance]_vars

\* ---- the caller of test_tree_height, next to the free caller --------------

\* const int inserts[] and const size_t heights[] of test_tree_height
inserts == <<5, 15, 2, 7, 12, 17, 1, 3, 6, 8, 11, 13, 16, 18>>
heights == <<2, 2, 3, 3, 3, 3, 4, 4, 4, 4, 4, 4, 4, 4>>

\* tree = tree->insert(inserts[i]) for i = from .. len - 1: the calls to make
RECURSIVE InsertCalls(_)
InsertCalls(from) ==
    IF from > Len(inserts) THEN <<>>
    ELSE <<[op |-> "insert", arg |-> inserts[from]]>> \o InsertCalls(from + 1)

\* Option<Tree<int>> tree(Some(Tree<int>(10))) with the loop ahead, or the
\* free caller of Init
InitHeight ==
    \/ Init
    \/ /\ tree = Arrow(Some(TreeOf(10)))
       /\ others = <<>>
       /\ script = InsertCalls(1)
       /\ InitCaller

\* the loop of the test runs first; a caller without a loop ahead is free
NextHeight ==
    \/ ScriptCall
    \/ script = <<>> /\ Next
    \/ script # <<>> /\ TakeOption

SpecHeight == InitHeight /\ [][NextHeight]_vars

\* ---- a caller that also calls balance() (main) --------------------------

\* tree->balance(): a const member function, the receiver is not assigned
CallBalance ==
    /\ pc = "idle"
    /\ ret' = balance(tree, elide)
    /\ pc' = "balance"
    /\ arg' = 0
    /\ UNCHANGED <<tree, orig, prevcall, elide>>
    /\ UNCHANGED aux

\* unbal = unbal->balance(): Option::operator=(T newval) stores a copy
TakeBalanced ==
    /\ pc = "balance"
    /\ ~IsExc(ret)
    /\ tree' = Arrow(Some(ret))
    /\ orig' = Some(tree)
    /\ prevcall' = [op |-> pc, arg |-> arg]
    /\ pc' = "idle"
    /\ UNCHANGED <<ret, arg, elide>>
    /\ UNCHANGED aux

NextBalance ==
    \/ Next
    \/ CallBalance
    \/ TakeBalanced

SpecBalance == Init /\ [][NextBalance]_vars

\* ---- the caller of test_tree_remove, next to the free caller --------------

\* const int inserts[] of test_tree_remove
remove_inserts == <<6, 0, 1, 4, 8, 10, 3>>

\* the calls of the two loops: tree->insert(inserts[i]), then
\* tree->remove(inserts[i]), for i = from .. len - 1
RECURSIVE RemoveTestCalls(_, _)
RemoveTestCalls(op, from) ==
    IF from > Len(remove_inserts) THEN <<>>
    ELSE <<[op |-> op, arg |-> remove_inserts[from]]>> \o RemoveTestCalls(op, from + 1)

\* Option<Tree<int>> tree(Some(Tree<int>(5))) with the loops ahead, or the
\* free caller of Init
InitRemoveTest ==
    \/ Init
    \/ /\ tree = Arrow(Some(TreeOf(5)))
       /\ others = <<>>
       /\ script = RemoveTestCalls("insert", 1) \o RemoveTestCalls("remove", 1)
       /\ InitCaller

\* the loops of the test run first; a caller without a loop ahead is free
NextRemoveTest ==
    \/ ScriptCall
    \/ script = <<>> /\ Next
    \/ script # <<>> /\ TakeOption
    \/ script # <<>> /\ TakeRemoved

SpecRemoveTest == InitRemoveTest /\ [][NextRemoveTest]_vars

\* ---- a caller that inserts one of its trees into the other ---------------

\* tree.insert(other) with a Tree argument
CallInsertTree ==
    /\ pc = "idle"
    /\ others # <<>>
    /\ tree_size(Some(tree)) < MaxSize
    /\ ret' = insertTree(tree, others[1], elide)
    /\ pc' = "insert"
    /\ arg' = others[1].m_node
    /\ UNCHANGED <<tree, orig, prevcall, elide>>
    /\ UNCHANGED aux

\* tree.insert(o) with an Option<Tree> argument: the other tree, or None
CallInsertOption(o) ==
    /\ pc = "idle"
    /\ tree_size(Some(tree)) < MaxSize
    /\ ret' = insertOption(tree, o, elide)
    /\ pc' = IF is_some(o) THEN "insert" ELSE "insert_none"
    /\ arg' = IF is_some(o) THEN Arrow(o).m_node ELSE arg
    /\ UNCHANGED <<tree, orig, prevcall, elide>>
    /\ UNCHANGED aux

\* the caller goes on with what insert(None) returned, taken as a Tree or
\* stored in an Option
TakeCopy ==
    /\ pc = "insert_none"
    /\ ~IsExc(ret)
    /\ tree' \in {Return(ret, elide), Arrow(Some(ret))}
    /\ orig' = Some(tree)
    /\ prevcall' = [op |-> pc, arg |-> arg]
    /\ pc' = "idle"
    /\ UNCHANGED <<ret, arg, elide>>
    /\ UNCHANGED aux

NextInsertTree ==
    \/ NextEq
    \/ CallInsertTree
    \/ \E o \in {None} \cup {Some(others[i]) : i \in 1..Len(others)} : CallInsertOption(o)
    \/ TakeCopy

SpecInsertTree == InitEq /\ [][NextInsertTree]_vars

\* ---- a caller that holds an Option<int> (test_option_*) ------------------

\* the shared handles and bare pointers a caller can pass: null, or one value
Handles == {<<>>} \cup {<<v>> : v \in Values}

TreeSide == <<tree, ret, pc, arg, orig, prevcall, elide, others, it, out, script>>

\* Option<int> i = None<int>();
OptNone ==
    /\ opt' = None
    /\ UNCHANGED <<TreeSide, opt2, optret>>

\* Option<int> i = Some<int>(v);
OptSome(v) ==
    /\ opt' = OptionValue(v)
    /\ UNCHANGED <<TreeSide, opt2, optret>>

\* Option<int> i(h) with a std::shared_ptr<int> h
OptFromHandle(h) ==
    /\ opt' = OptionHandle(h)
    /\ UNCHANGED <<TreeSide, opt2, optret>>

\* Option<int> i(p) with an int *p
OptFromBare(p) ==
    /\ opt' = OptionBare(p)
    /\ UNCHANGED <<TreeSide, opt2, optret>>

\* Option<int> i2(i);
OptCopy ==
    /\ opt2' = opt
    /\ UNCHANGED <<TreeSide, opt, optret>>

\* i = i2;
OptAssignOption ==
    /\ opt' = AssignOption(opt, opt2)
    /\ UNCHANGED <<TreeSide, opt2, optret>>

\* i = h;
OptAssignHandle(h) ==
    /\ opt' = AssignHandle(opt, h)
    /\ UNCHANGED <<TreeSide, opt2, optret>>

\* i = v;
OptAssignValue(v) ==
    /\ opt' = AssignValue(opt, v)
    /\ UNCHANGED <<TreeSide, opt2, optret>>

\* i.get_ref()
ReadGetRef ==
    /\ optret' = [op |-> "get_ref", on |-> opt, res |-> get_ref(opt)]
    /\ UNCHANGED <<TreeSide, opt, opt2>>

\* i.get_bare()
ReadGetBare ==
    /\ \E r \in get_bare(opt) :
          optret' = [op |-> "get_bare", on |-> opt, res |-> r]
    /\ UNCHANGED <<TreeSide, opt, opt2>>

\* i.operator->()
ReadArrow ==
    /\ optret' = [op |-> "operator->", on |-> opt, res |-> operator_arrow(opt)]
    /\ UNCHANGED <<TreeSide, opt, opt2>>

NextOption ==
    \/ OptNone
    \/ \E v \in Values : OptSome(v)
    \/ \E h \in Handles : OptFromHandle(h)
    \/ \E p \in Handles : OptFromBare(p)
    \/ OptCopy
    \/ OptAssignOption
    \/ \E h \in Handles : OptAssignHandle(h)
    \/ \E v \in Values : OptAssignValue(v)
    \/ ReadGetRef
    \/ ReadGetBare
    \/ ReadArrow

SpecOption == Init /\ [][NextOption]_vars

 -------------------------------------------

\* every node of t has subtrees whose heights differ by at most 1
RECURSIVE AVL(_)
AVL(t) ==
    LET hl == tree_height(t.m_child_left)
        hr == tree_height(t.m_child_right)
    IN  /\ hl <= hr + 1
        /\ hr <= hl + 1
        /\ is_some(t.m_child_left) => AVL(Arrow(t.m_child_left))
        /\ is_some(t.m_child_right) => AVL(Arrow(t.m_child_right))

NonDecreasing(l) == \A i \in 1..(Len(l) - 1) : l[i] <= l[i + 1]

SeqValues(l) == {l[i] : i \in 1..Len(l)}

\* at every node, the left subtree holds nothing greater and the right
\* subtree nothing smaller than the node's value
RECURSIVE Ordered(_)
Ordered(t) ==
    /\ is_some(t.m_child_left) =>
          /\ \A x \in SeqValues(toList(Arrow(t.m_child_left))) : x <= t.m_node
          /\ Ordered(Arrow(t.m_child_left))
    /\ is_some(t.m_child_right) =>
          /\ \A x \in SeqValues(toList(Arrow(t.m_child_right))) : x >= t.m_node
          /\ Ordered(Arrow(t.m_child_right))

\* the number of occurrences of x in l
Count(l, x) == Cardinality({i \in 1..Len(l) : l[i] = x})

\* the in-order content of an Option<Tree>
OptList(o) == IF is_some(o) THEN toList(Arrow(o)) ELSE <<>>

\* l without its first occurrence of x
RemoveOne(l, x) ==
    IF \E i \in 1..Len(l) : l[i] = x
    THEN LET k == CHOOSE i \in 1..Len(l) : l[i] = x /\ \A j \in 1..(i - 1) : l[j] # x
         IN  SubSeq(l, 1, k - 1) \o SubSeq(l, k + 1, Len(l))
    ELSE l

\* what a caller can observe of a tree
Observe(t) ==
    <<toList(t), size(t), height(t), [x \in Values |-> contains(t, x)]>>

\* ---- the claims ----------------------------------------------------------

\* C1: after any sequence of insert calls on a single-element tree, every
\* node of the resulting tree has subtrees whose heights differ by at most 1.
C1_InsertKeepsBalance == pc = "insert" => AVL(ret)

\* C2: if every node of T is balanced and T.remove(v) is non-empty, every
\* node of the result is balanced too.
C2_RemoveKeepsBalance ==
    (pc = "remove" /\ AVL(tree) /\ is_some(ret)) => AVL(Arrow(ret))

\* C3: every tree produced by insert and remove calls lists its values in
\* non-decreasing order, and every node separates its two subtrees.
C3_OrderInvariant ==
    /\ NonDecreasing(toList(tree)) /\ Ordered(tree)
    /\ pc = "insert" => NonDecreasing(toList(ret)) /\ Ordered(ret)
    /\ (pc = "remove" /\ is_some(ret)) =>
          NonDecreasing(toList(Arrow(ret))) /\ Ordered(Arrow(ret))

C3_Witness ==
    /\ pc = "remove" /\ is_some(ret)
    /\ prevcall.op = "insert"
    /\ contains(tree, arg)
    /\ Len(toList(Arrow(ret))) >= 3
    /\ \E x \in Values : Count(toList(Arrow(ret)), x) >= 2

C5_InsertSize == pc = "insert" => size(ret) = size(tree) + 1

\* C6: on a tree of two or more values, remove(v) gives size() - 1 when the
\* tree contains v and the same size() when it does not.
C6_RemoveSize ==
    (pc = "remove" /\ Len(toList(tree)) >= 2) =>
        /\ is_some(ret)
        /\ size(Arrow(ret)) = IF contains(tree, arg) THEN size(tree) - 1
                                                     ELSE size(tree)

\* C7: T.insert(v).toList() is T.toList() plus one occurrence of v; the
\* result contains v and every value T contained.
C7_InsertContent ==
    pc = "insert" =>
        /\ \A x \in Values :
              Count(toList(ret), x) =
                  Count(toList(tree), x) + (IF x = arg THEN 1 ELSE 0)
        /\ Len(toList(ret)) = Len(toList(tree)) + 1
        /\ contains(ret, arg)
        /\ \A x \in Values : contains(tree, x) => contains(ret, x)

C7_Witness ==
    /\ pc = "insert"
    /\ contains(tree, arg)
    /\ Len(toList(tree)) >= 3
    /\ ret.m_node # tree.m_node

\* C8: when T contains v, the in-order content of T.remove(v) is T.toList()
\* less one occurrence of v; the result is empty exactly for the single
\* element v; a v that occurred once is gone and the other values remain.
C8_RemoveContent ==
    (pc = "remove" /\ contains(tree, arg)) =>
        /\ OptList(ret) = RemoveOne(toList(tree), arg)
        /\ is_none(ret) <=> toList(tree) = <<arg>>
        /\ (is_some(ret) /\ Count(toList(tree), arg) = 1) =>
              ~contains(Arrow(ret), arg)
        /\ is_some(ret) =>
              \A x \in Values \ {arg} :
                  contains(Arrow(ret), x) <=> contains(tree, x)

C8_Witness ==
    /\ pc = "remove" /\ contains(tree, arg)
    /\ is_some(ret)
    /\ tree.m_node = arg
    /\ ~is_leaf(tree)
    /\ Len(toList(tree)) >= 4

\* C9: when T does not contain v, T.remove(v) raises no error and returns a
\* non-empty Option whose tree has the toList, size and contains of T.
C9_RemoveAbsent ==
    (pc = "remove" /\ ~contains(tree, arg)) =>
        /\ ~IsExc(ret)
        /\ is_some(ret)
        /\ toList(Arrow(ret)) = toList(tree)
        /\ size(Arrow(ret)) = size(tree)
        /\ \A x \in Values : contains(Arrow(ret), x) <=> contains(tree, x)

\* C10: when T does not contain v, R = T.insert(v).remove(v) is non-empty,
\* does not contain v, and contains every other x exactly when T does.
C10_RoundTrip ==
    (/\ pc = "remove"
     /\ prevcall = [op |-> "insert", arg |-> arg]
     /\ is_some(orig)
     /\ ~contains(Arrow(orig), arg)) =>
        /\ is_some(ret)
        /\ ~contains(Arrow(ret), arg)
        /\ \A x \in Values \ {arg} :
              contains(Arrow(ret), x) <=> contains(Arrow(orig), x)

C10_Witness ==
    /\ pc = "remove"
    /\ prevcall = [op |-> "insert", arg |-> arg]
    /\ is_some(orig)
    /\ ~contains(Arrow(orig), arg)
    /\ Len(toList(Arrow(orig))) >= 3
    /\ toList(Arrow(ret)) = toList(Arrow(orig))
    /\ Arrow(ret).m_node # Arrow(orig).m_node

\* the least and the greatest element of a non-empty sequence
SeqMin(l) == CHOOSE x \in SeqValues(l) : \A y \in SeqValues(l) : x <= y
SeqMax(l) == CHOOSE x \in SeqValues(l) : \A y \in SeqValues(l) : x >= y

\* C13: for every tree produced by insert and remove calls and every value
\* v, contains(v) is true exactly when v occurs in toList().
C13_ContainsIffListed ==
    /\ \A v \in Values : contains(tree, v) <=> v \in SeqValues(toList(tree))
    /\ pc = "insert" =>
          \A v \in Values : contains(ret, v) <=> v \in SeqValues(toList(ret))
    /\ (pc = "remove" /\ is_some(ret)) =>
          \A v \in Values :
              contains(Arrow(ret), v) <=> v \in SeqValues(toList(Arrow(ret)))

C13_Witness ==
    /\ pc = "idle"
    /\ prevcall.op = "remove"
    /\ height(tree) >= 3
    /\ \E x \in Values : Count(toList(tree), x) >= 2
    /\ \E x \in Values : x # tree.m_node /\ contains(tree, x)
    /\ \E x \in Values : ~contains(tree, x)

\* C14: for every tree produced by insert and remove calls, min() is the
\* smallest value of toList() and max() the largest.
C14_MinMax ==
    /\ min(tree) = SeqMin(toList(tree)) /\ max(tree) = SeqMax(toList(tree))
    /\ pc = "insert" =>
          min(ret) = SeqMin(toList(ret)) /\ max(ret) = SeqMax(toList(ret))
    /\ (pc = "remove" /\ is_some(ret)) =>
          /\ min(Arrow(ret)) = SeqMin(toList(Arrow(ret)))
          /\ max(Arrow(ret)) = SeqMax(toList(Arrow(ret)))

C14_Witness ==
    /\ pc = "remove" /\ is_some(ret)
    /\ contains(tree, arg)
    /\ height(Arrow(ret)) >= 3
    /\ min(Arrow(ret)) # Arrow(ret).m_node
    /\ max(Arrow(ret)) # Arrow(ret).m_node
    /\ arg = min(tree)

\* C11: two trees built from the same first value by inserting the same
\* multiset of values in any two orders compare equal under operator== and
\* not unequal under operator!=; one extra value in one of them makes them
\* compare unequal.
C11_EqualityLaw ==
    (others # <<>> /\ toList(tree) = toList(others[1])) =>
        /\ Equal(tree, others[1]) /\ Equal(others[1], tree)
        /\ ~NotEqual(tree, others[1])
        /\ pc = "insert" => NotEqual(ret, others[1]) /\ ~Equal(others[1], ret)

\* C12: A == B exactly when A.toList() and B.toList() are the same
\* sequence, whatever the shapes; operator!= is the negation.
C12_EqualIffSameList ==
    others # <<>> =>
        /\ Equal(tree, others[1]) <=> toList(tree) = toList(others[1])
        /\ NotEqual(tree, others[1]) <=> ~Equal(tree, others[1])

\* C16: iterators at the same index over two distinct Tree objects compare
\* unequal, also when the two trees hold the same values.
C16_IterIdentity ==
    others # <<>> =>
        \A i \in 0..MaxSize :
            LET a == [begin("tree") EXCEPT !.m_index = i]
                b == [begin("other") EXCEPT !.m_index = i]
            IN  ~IterEqual(a, b) /\ IterNotEqual(a, b)

\* C15: over a tree held in an Option, the loop it = begin(); it != end();
\* ++it goes on exactly while fewer than size() values have been read, and
\* the values read are toList() in order; so it ends after size() steps
\* with out = toList().
C15_IterateInOrder ==
    (pc = "loop" /\ tree = Arrow(Some(tree))) =>
        /\ it.m_index = Len(out)
        /\ Len(out) <= size(tree)
        /\ out = SubSeq(toList(tree), 1, Len(out))
        /\ IterNotEqual(it, end("tree")) <=> Len(out) < size(tree)
        /\ size(tree) = Len(toList(tree))

C15_Witness ==
    /\ pc = "loop" /\ tree = Arrow(Some(tree))
    /\ ~IterNotEqual(it, end("tree"))
    /\ out = toList(tree)
    /\ Len(out) >= 4
    /\ height(tree) >= 3
    /\ \E x \in Values : Count(out, x) >= 2
    /\ prevcall.op = "remove"

\* C18: no call of insert, remove, contains, min, max, size, height,
\* is_balanced, balance, toList or iterator dereference below size() on a
\* tree reached by insert and remove calls raises the dereference-of-None
\* exception.
C18_NoEmptyDeref ==
    /\ ~IsExc(ret)
    /\ pc # "threw"
    /\ ~IsExc(balance(tree, elide))
    /\ \A i \in 0..(size(tree) - 1) :
          ~IsExc(Star([begin("tree") EXCEPT !.m_index = i]))
    /\ \A v \in Values : contains(tree, v) \in BOOLEAN
    /\ min(tree) \in Values /\ max(tree) \in Values
    /\ size(tree) \in Nat /\ height(tree) \in Nat
    /\ is_balanced(tree) \in BOOLEAN
    /\ Len(toList(tree)) >= 1

C18_Witness ==
    /\ pc = "remove"
    /\ tree.m_node = arg
    /\ is_some(tree.m_child_left)
    /\ is_some(Arrow(tree.m_child_left).m_child_right)
    /\ is_some(tree.m_child_right)
    /\ is_some(ret)
    /\ Arrow(ret).m_node = max(Arrow(tree.m_child_left))

\* what a read of an Option that holds a value returns: that value, as the
\* handle, the copy or the pointer
Held(op, o) ==
    CASE op = "get_ref" -> [handle |-> o.m_value]
      [] op = "get_bare" -> [value |-> o.m_value[1]]
      [] op = "operator->" -> [pointer |-> o.m_value]

\* C17: a read (get_ref, get_bare, operator->) of an Option that holds no
\* value raises the exception, and a read of an Option that holds a value
\* returns that value.
C17_ReadOption ==
    optret.op # "none" =>
        IF optret.on.m_value = <<>>
        THEN IsExc(optret.res)
        ELSE optret.res = Held(optret.op, optret.on)

\* C17 where m_is_some tells whether the handle is null: the reads behave
C17_ReadConsistent ==
    (optret.op # "none" /\ optret.on.m_is_some = (optret.on.m_value # <<>>)) =>
        IF is_none(optret.on)
        THEN IsExc(optret.res)
        ELSE optret.res = Held(optret.op, optret.on)

\* C19: from Tree(0), after the inserts of 1..9 the tree has height() = 4
\* and is_balanced(); after the removals of 0..3 that follow it has
\* height() = 3 and is_balanced().
C19_Rebalance ==
    /\ (pc \in {"idle", "loop"} /\ Len(script) = 4) =>
           height(tree) = 4 /\ is_balanced(tree)
    /\ (pc \in {"idle", "loop"} /\ script = <<>>) =>
           height(tree) = 3 /\ is_balanced(tree)

C19_Witness ==
    /\ pc = "idle"
    /\ script = <<>>
    /\ prevcall = [op |-> "remove", arg |-> 3]
    /\ toList(tree) = <<4, 5, 6, 7, 8, 9>>
    /\ height(tree) = 3

\* the cached size of t and of every node below it is 1 + size(left) +
\* size(right), with 0 for an empty child
RECURSIVE Sized(_)
Sized(t) ==
    /\ t.m_size = 1 + tree_size(t.m_child_left) + tree_size(t.m_child_right)
    /\ is_some(t.m_child_left) => Sized(Arrow(t.m_child_left))
    /\ is_some(t.m_child_right) => Sized(Arrow(t.m_child_right))

\* C20: a tree built by any of the three constructors (single value, copy,
\* value plus children) has m_size = 1 + size(left) + size(right), and so
\* has every node of the trees the caller holds; size() is the length of
\* toList().
C20_CachedSize ==
    /\ \A v \in Values : Sized(TreeOf(v))
    /\ Sized(TreeCopy(tree))
    /\ Sized(TreeWith(tree.m_node, tree.m_child_left, tree.m_child_right))
    /\ Sized(tree)
    /\ pc = "insert" => Sized(ret)
    /\ size(tree) = Len(toList(tree))

\* C20 without the value-plus-children constructor and for the trees that
\* went through a copy: the other two constructors count the node
C20_CopiedSize ==
    /\ \A v \in Values : Sized(TreeOf(v))
    /\ Sized(TreeCopy(tree))
    /\ tree = TreeCopy(tree) => Sized(tree) /\ size(tree) = Len(toList(tree))
    /\ pc = "insert" => Sized(TreeCopy(ret))

\* the cached height of t and of every node below it is 1 + max(height(left),
\* height(right)), with 0 for an empty child
RECURSIVE Heighted(_)
Heighted(t) ==
    /\ t.m_height = 1 + Max(tree_height(t.m_child_left), tree_height(t.m_child_right))
    /\ is_some(t.m_child_left) => Heighted(Arrow(t.m_child_left))
    /\ is_some(t.m_child_right) => Heighted(Arrow(t.m_child_right))

\* the numbers of nodes on the paths from the root of t down to its leaves
RECURSIVE PathLens(_)
PathLens(t) ==
    IF is_leaf(t) THEN {1}
    ELSE {n + 1 : n \in
            (IF is_some(t.m_child_left) THEN PathLens(Arrow(t.m_child_left)) ELSE {})
            \cup
            (IF is_some(t.m_child_right) THEN PathLens(Arrow(t.m_child_right)) ELSE {})}

LongestPath(t) == CHOOSE n \in PathLens(t) : \A k \in PathLens(t) : k <= n

\* C21: a tree built by any constructor, and every node of the trees the
\* caller holds or gets back, has m_height = 1 + max(height(left),
\* height(right)); height() is the number of nodes on the longest path from
\* the root to a leaf; and after the k-th insert of test_tree_height the
\* height is heights[k].
C21_CachedHeight ==
    /\ \A v \in Values : Heighted(TreeOf(v))
    /\ Heighted(TreeCopy(tree))
    /\ Heighted(TreeWith(tree.m_node, tree.m_child_left, tree.m_child_right))
    /\ Heighted(tree)
    /\ height(tree) = LongestPath(tree)
    /\ pc = "insert" => Heighted(ret) /\ height(ret) = LongestPath(ret)
    /\ (pc = "remove" /\ is_some(ret)) =>
           Heighted(Arrow(ret)) /\ height(Arrow(ret)) = LongestPath(Arrow(ret))
    /\ \A k \in 1..Len(inserts) :
           (/\ pc = "idle"
            /\ prevcall = [op |-> "insert", arg |-> inserts[k]]
            /\ SeqValues(toList(tree)) = {10} \cup {inserts[j] : j \in 1..k})
           => height(tree) = heights[k]

C21_Witness ==
    /\ pc = "idle"
    /\ script = <<>>
    /\ prevcall = [op |-> "insert", arg |-> 18]
    /\ size(tree) = 15
    /\ height(tree) = 4
    /\ Heighted(tree)

\* t and every node below it
RECURSIVE Nodes(_)
Nodes(t) ==
    {t} \cup (IF is_some(t.m_child_left) THEN Nodes(Arrow(t.m_child_left)) ELSE {})
        \cup (IF is_some(t.m_child_right) THEN Nodes(Arrow(t.m_child_right)) ELSE {})

\* b is H rotated to the left: the root is R's value, the left child is a
\* node of H's value, H's left child and R's left child, the right child is
\* R's right child
IsRotLeft(H, b) ==
    /\ is_some(H.m_child_right)
    /\ LET R == Arrow(H.m_child_right) IN
       /\ b.m_node = R.m_node
       /\ is_some(b.m_child_left)
       /\ Arrow(b.m_child_left).m_node = H.m_node
       /\ Arrow(b.m_child_left).m_child_left = H.m_child_left
       /\ Arrow(b.m_child_left).m_child_right = R.m_child_left
       /\ b.m_child_right = R.m_child_right

\* the mirror image
IsRotRight(H, b) ==
    /\ is_some(H.m_child_left)
    /\ LET L == Arrow(H.m_child_left) IN
       /\ b.m_node = L.m_node
       /\ is_some(b.m_child_right)
       /\ Arrow(b.m_child_right).m_node = H.m_node
       /\ Arrow(b.m_child_right).m_child_right = H.m_child_right
       /\ Arrow(b.m_child_right).m_child_left = L.m_child_right
       /\ b.m_child_left = L.m_child_left

\* b has the value and the two children of n
SameNode(n, b) ==
    /\ b.m_node = n.m_node
    /\ b.m_child_left = n.m_child_left
    /\ b.m_child_right = n.m_child_right

\* what C22 says of balance() on n with result b
BalanceLaw(n, b) ==
    LET hl == tree_height(n.m_child_left)
        hr == tree_height(n.m_child_right)
    IN  /\ IsRotRight(n, b) <=> hl > hr + 1
        /\ IsRotLeft(n, b) <=> hr > hl + 1
        /\ (hl <= hr + 1 /\ hr <= hl + 1) => SameNode(n, b)
        /\ toList(b) = toList(n)

\* C22: balance() rotates to the right exactly when height(left) >
\* height(right) + 1, to the left exactly when height(right) > height(left)
\* + 1, and otherwise returns a tree of the same value and children; the
\* result has the toList() of the node.  Stated of the pending call and of
\* balance() on every node of the tree the caller holds.
C22_BalanceCases ==
    /\ pc = "balance" => BalanceLaw(tree, ret)
    /\ \A n \in Nodes(tree) : BalanceLaw(n, balance(n, elide))

C22_Witness ==
    /\ pc = "balance"
    /\ tree_height(tree.m_child_right) > tree_height(tree.m_child_left) + 1
    /\ IsRotLeft(tree, ret)
    /\ ~SameNode(tree, ret)
    /\ is_some(Arrow(tree.m_child_right).m_child_left)
    /\ \E n \in Nodes(tree) :
          tree_height(n.m_child_left) > tree_height(n.m_child_right) + 1

\* C23: rotLeft of a node H with a right child R gives R's value at the
\* root, (H's value, H's left child, R's left child) as the left child and
\* R's right child as the right child; rotRight is the mirror image; both
\* keep the in-order sequence and the number of values.  Stated of every
\* node of the tree the caller holds.
C23_Rotations ==
    \A H \in Nodes(tree) :
        /\ is_some(H.m_child_right) =>
              LET b == rotLeft(H, elide) IN
              /\ IsRotLeft(H, b)
              /\ toList(b) = toList(H)
              /\ tree_size(Some(b)) = tree_size(Some(H))
        /\ is_some(H.m_child_left) =>
              LET b == rotRight(H, elide) IN
              /\ IsRotRight(H, b)
              /\ toList(b) = toList(H)
              /\ tree_size(Some(b)) = tree_size(Some(H))

C23_Witness ==
    /\ pc = "balance"
    /\ tree_height(tree.m_child_left) > tree_height(tree.m_child_right) + 1
    /\ ret = Return(rotRight(tree, elide), elide)
    /\ IsRotRight(tree, ret)
    /\ is_some(Arrow(tree.m_child_left).m_child_right)
    /\ is_some(tree.m_child_right)
    /\ \E H \in Nodes(tree) :
          is_some(H.m_child_right) /\ is_some(Arrow(H.m_child_right).m_child_left)

\* the nodes on which insert(node) on t invokes balance(): the temporaries
\* of the private constructor, innermost call included
RECURSIVE InsertBalanced(_, _, _)
InsertBalanced(t, node, el) ==
    IF t.m_node > node
    THEN IF is_none(t.m_child_left)
         THEN {TreeWith(t.m_node, Some(TreeOf(node)), t.m_child_right)}
         ELSE LET lchld == Pointee(get_ref(t.m_child_left)) IN
              InsertBalanced(lchld, node, el)
              \cup {TreeWith(t.m_node, Some(insert(lchld, node, el)), t.m_child_right)}
    ELSE IF is_none(t.m_child_right)
         THEN {TreeWith(t.m_node, t.m_child_left, Some(TreeOf(node)))}
         ELSE LET rchld == Pointee(get_ref(t.m_child_right)) IN
              InsertBalanced(rchld, node, el)
              \cup {TreeWith(t.m_node, t.m_child_left, Some(insert(rchld, node, el)))}

\* the nodes on which remove(node) on t invokes balance(): the heads
RECURSIVE RemoveBalanced(_, _, _)
RemoveBalanced(t, node, el) ==
    IF t.m_node = node THEN {}
    ELSE IF t.m_node > node
    THEN IF is_none(t.m_child_left) THEN {}
         ELSE RemoveBalanced(Arrow(t.m_child_left), node, el)
              \cup {TreeWith(t.m_node, remove(Arrow(t.m_child_left), node, el),
                             t.m_child_right)}
    ELSE IF is_none(t.m_child_right) THEN {}
         ELSE RemoveBalanced(Arrow(t.m_child_right), node, el)
              \cup {TreeWith(t.m_node, t.m_child_left,
                             remove(Arrow(t.m_child_right), node, el))}

\* the nodes that popMin on t builds
RECURSIVE PopMinRebuilt(_)
PopMinRebuilt(t) ==
    IF is_some(t.m_child_left)
    THEN PopMinRebuilt(Arrow(t.m_child_left))
         \cup {TreeWith(t.m_node, popMin(Arrow(t.m_child_left), None).ret,
                        t.m_child_right)}
    ELSE {}

\* the nodes that popMax on t builds
RECURSIVE PopMaxRebuilt(_)
PopMaxRebuilt(t) ==
    IF is_some(t.m_child_right)
    THEN PopMaxRebuilt(Arrow(t.m_child_right))
         \cup {TreeWith(t.m_node, t.m_child_left,
                        popMax(Arrow(t.m_child_right), None).ret)}
    ELSE {}

\* the nodes that removeThisNode on t builds, those of popMin / popMax included
ThisNodeRebuilt(t) ==
    IF is_leaf(t) THEN {}
    ELSE IF is_some(t.m_child_left)
    THEN PopMaxRebuilt(Arrow(t.m_child_left))
         \cup {Arrow(removeThisNode(t))}
    ELSE PopMinRebuilt(Arrow(t.m_child_right))
         \cup {Arrow(removeThisNode(t))}

\* the nodes that remove(node) on t builds below the heads: those of the
\* removeThisNode call it ends in
RECURSIVE RemoveRebuilt(_, _)
RemoveRebuilt(t, node) ==
    IF t.m_node = node THEN ThisNodeRebuilt(t)
    ELSE IF t.m_node > node
    THEN IF is_none(t.m_child_left) THEN {}
         ELSE RemoveRebuilt(Arrow(t.m_child_left), node)
    ELSE IF is_none(t.m_child_right) THEN {}
         ELSE RemoveRebuilt(Arrow(t.m_child_right), node)

\* the difference of the heights of the two children of n
Diff(n) ==
    LET hl == tree_height(n.m_child_left)
        hr == tree_height(n.m_child_right)
    IN  IF hl > hr THEN hl - hr ELSE hr - hl

\* C24: during an insert or a remove, the children of every node on which
\* balance() is invoked, and of every node rebuilt by remove,
\* removeThisNode, popMin or popMax, differ in height by at most 2; and
\* where they differ by exactly 2, the node that balance() returns after
\* its single rotation has children that differ by at most 1.
C24_DifferentialBound ==
    /\ pc = "insert" =>
          \A n \in InsertBalanced(tree, arg, elide) :
              /\ Diff(n) <= 2
              /\ Diff(n) = 2 => Diff(balance(n, elide)) <= 1
    /\ pc = "remove" =>
          /\ \A n \in RemoveBalanced(tree, arg, elide) :
                /\ Diff(n) <= 2
                /\ Diff(n) = 2 => Diff(balance(n, elide)) <= 1
          /\ \A n \in RemoveRebuilt(tree, arg) : Diff(n) <= 2

\* the first half of C24 alone: the differential never exceeds 2
C24_AtMostTwo ==
    /\ pc = "insert" => \A n \in InsertBalanced(tree, arg, elide) : Diff(n) <= 2
    /\ pc = "remove" =>
          /\ \A n \in RemoveBalanced(tree, arg, elide) : Diff(n) <= 2
          /\ \A n \in RemoveRebuilt(tree, arg) : Diff(n) <= 2

\* what C25 says of the node r that replaces N
Replaces(N, r) ==
    IF is_some(N.m_child_left)
    THEN LET l == toList(Arrow(N.m_child_left)) IN
         /\ r.m_node = SeqMax(l)
         /\ OptList(r.m_child_left) = SubSeq(l, 1, Len(l) - 1)
         /\ Count(OptList(r.m_child_left), SeqMax(l)) = Count(l, SeqMax(l)) - 1
         /\ r.m_child_right = N.m_child_right
    ELSE LET l == toList(Arrow(N.m_child_right)) IN
         /\ r.m_node = SeqMin(l)
         /\ OptList(r.m_child_right) = SubSeq(l, 2, Len(l))
         /\ Count(OptList(r.m_child_right), SeqMin(l)) = Count(l, SeqMin(l)) - 1
         /\ r.m_child_left = None

\* C25: when remove(v) finds v at a node N that is not a leaf, the node that
\* replaces N holds the maximum of N's left subtree over that subtree less
\* one occurrence of the maximum and N's right child; or, when N has no left
\* child, the minimum of the right subtree over an empty left child and the
\* right subtree less the minimum.  Stated of the pending remove that finds
\* v at the root and of removeThisNode on every node of the caller's tree.
C25_Replacement ==
    /\ (pc = "remove" /\ tree.m_node = arg /\ ~is_leaf(tree)) =>
           is_some(ret) /\ Replaces(tree, Arrow(ret))
    /\ \A N \in Nodes(tree) :
           ~is_leaf(N) =>
               is_some(removeThisNode(N)) /\ Replaces(N, Arrow(removeThisNode(N)))

C25_Witness ==
    /\ pc = "remove"
    /\ tree.m_node = arg
    /\ is_some(tree.m_child_left)
    /\ is_some(tree.m_child_right)
    /\ Len(toList(Arrow(tree.m_child_left))) >= 2
    /\ is_some(ret)
    /\ Replaces(tree, Arrow(ret))
    /\ Arrow(ret).m_node # arg
    /\ \E N \in Nodes(tree) : is_none(N.m_child_left) /\ is_some(N.m_child_right)

\* no node of t has its own value in its left subtree
RECURSIVE NoEqualLeft(_)
NoEqualLeft(t) ==
    /\ is_some(t.m_child_left) =>
          /\ t.m_node \notin SeqValues(toList(Arrow(t.m_child_left)))
          /\ NoEqualLeft(Arrow(t.m_child_left))
    /\ is_some(t.m_child_right) => NoEqualLeft(Arrow(t.m_child_right))

\* C26 as stated: in a tree built by insert calls, no node's left subtree
\* holds a value equal to the node's own value.
C26_DuplicatesRight ==
    /\ NoEqualLeft(tree)
    /\ pc = "insert" => NoEqualLeft(ret)

\* C26 amended: insert(v) on a node whose value is v leaves the node's left
\* subtree as it is and puts v into the right subtree; the rotation of
\* balance() can then move an equal value to the left, and what holds of
\* every node of the result is that its left subtree holds nothing greater
\* and its right subtree nothing smaller than its own value.
C26_DuplicatesRouted ==
    pc = "insert" =>
        /\ \A N \in Nodes(tree) :
              N.m_node = arg =>
                  \E n \in InsertBalanced(N, arg, elide) :
                      /\ n.m_node = N.m_node
                      /\ n.m_child_left = N.m_child_left
                      /\ Count(OptList(n.m_child_right), arg)
                            = Count(OptList(N.m_child_right), arg) + 1
                      /\ insert(N, arg, elide) = Return(balance(n, elide), elide)
        /\ \A n \in Nodes(ret) :
              /\ \A x \in SeqValues(OptList(n.m_child_left)) : x <= n.m_node
              /\ \A x \in SeqValues(OptList(n.m_child_right)) : x >= n.m_node

C26_Witness ==
    /\ pc = "insert"
    /\ tree.m_node = arg
    /\ NoEqualLeft(tree)
    /\ ~NoEqualLeft(ret)
    /\ Count(toList(ret), arg) >= 3

\* C27: is_balanced() is true exactly when the recomputed heights of the two
\* children of the root differ by at most 1, whatever the nodes below look
\* like.  Stated of every node of the caller's tree and of a returned tree,
\* each taken as a root.
C27_RootOnly ==
    /\ \A n \in Nodes(tree) : is_balanced(n) <=> Diff(n) <= 1
    /\ pc = "insert" => \A n \in Nodes(ret) : is_balanced(n) <=> Diff(n) <= 1
    /\ (pc = "remove" /\ is_some(ret)) =>
           \A n \in Nodes(Arrow(ret)) : is_balanced(n) <=> Diff(n) <= 1

C27_Witness ==
    /\ pc = "idle"
    /\ is_balanced(tree)
    /\ ~AVL(tree)
    /\ \E n \in Nodes(tree) : ~is_balanced(n)
    /\ prevcall.op = "remove"

\* is_some() tells whether the handle is non-null, and is_none() is its negation
Agrees(o) ==
    /\ is_some(o) <=> o.m_value # <<>>
    /\ is_none(o) <=> ~is_some(o)

\* C28: after any constructions and assignments, is_some() is true exactly
\* when the stored handle is non-null and is_none() is its negation; so
\* get_ref() on an Option that reports is_some() never returns a null handle.
C28_SomeIffHandle ==
    /\ Agrees(opt)
    /\ Agrees(opt2)
    /\ (optret.op = "get_ref" /\ is_some(optret.on)) => optret.res # [handle |-> <<>>]

\* C28 less the two members that take a pointer that may be null: is_none()
\* is the negation of is_some(), and an Option that reports is_none() holds
\* a null handle
C28_NoneIsNull ==
    /\ is_none(opt) <=> ~is_some(opt)
    /\ is_none(opt) => opt.m_value = <<>>
    /\ is_none(opt2) => opt2.m_value = <<>>

\* C29: an iterator at an index at or beyond size() reads as 0 and does not
\* fail, and ++ moves it on from there: every value read at such an index
\* is 0, at every index from size() on operator* gives 0, and operator++
\* adds one.
C29_PastEnd ==
    /\ pc # "threw"
    /\ pc = "loop" =>
          /\ it.m_index = Len(out)
          /\ \A k \in 1..Len(out) : k > size(tree) => out[k] = 0
          /\ \A k \in size(tree)..(size(tree) + MaxPast) :
                LET at == [it EXCEPT !.m_index = k] IN
                /\ Star(at) = [value |-> 0]
                /\ Incr(at).m_index = k + 1

\* C29 with the number of values toList() holds in the place of size()
C29_PastCount ==
    /\ pc # "threw"
    /\ pc = "loop" =>
          /\ it.m_index = Len(out)
          /\ \A k \in 1..Len(out) : k > Len(toList(tree)) => out[k] = 0
          /\ \A k \in Len(toList(tree))..(Len(toList(tree)) + MaxPast) :
                LET at == [it EXCEPT !.m_index = k] IN
                /\ Star(at) = [value |-> 0]
                /\ Incr(at).m_index = k + 1

\* r holds the values of t and one v more
PlusOne(t, r, v) ==
    /\ Len(toList(r)) = Len(toList(t)) + 1
    /\ \A x \in Values :
          Count(toList(r), x) = Count(toList(t), x) + (IF x = v THEN 1 ELSE 0)
    /\ NonDecreasing(toList(r))

\* C30: insert with a Tree or a non-empty Option<Tree> argument inserts the
\* argument's root value only: the result has size() = receiver.size() + 1
\* and the receiver's values plus that one, whatever the argument holds;
\* insert with an empty Option returns a tree equal (operator==) to the
\* receiver.  Stated of the pending call and of the three calls on the
\* caller's two trees.
C30_InsertRootOnly ==
    /\ pc = "insert" => size(ret) = size(tree) + 1 /\ PlusOne(tree, ret, arg)
    /\ pc = "insert_none" => Equal(ret, tree)
    /\ (pc = "idle" /\ others # <<>>) =>
          LET a == others[1]
              r1 == insertTree(tree, a, elide)
              r2 == insertOption(tree, Some(a), elide)
              r0 == insertOption(tree, None, elide)
          IN  /\ size(r1) = size(tree) + 1 /\ PlusOne(tree, r1, a.m_node)
              /\ size(r2) = size(tree) + 1 /\ PlusOne(tree, r2, a.m_node)
              /\ Equal(r0, tree)

\* C30 with the values counted in toList() in the place of size() and of
\* operator==
C30_InsertRootValue ==
    /\ pc = "insert" => PlusOne(tree, ret, arg)
    /\ pc = "insert_none" => toList(ret) = toList(tree)
    /\ (pc = "idle" /\ others # <<>>) =>
          LET a == others[1]
              r1 == insertTree(tree, a, elide)
              r2 == insertOption(tree, Some(a), elide)
              r0 == insertOption(tree, None, elide)
          IN  /\ PlusOne(tree, r1, a.m_node)
              /\ PlusOne(tree, r2, a.m_node)
              /\ toList(r0) = toList(tree)

====
